---- MODULE Spec2Model ----
(***************************************************************************)
(* The RAG ingestion / retrieval pipeline of the MCP file-system server:   *)
(* text extraction, scanning, sentence chunking, embedding, the vector     *)
(* store session with its 20-minute collection rotation, and the two tool  *)
(* entry points.                                                           *)
(*                                                                         *)
(* A text is modelled as the sequence of its sentences; an exception that  *)
(* leaves a function is modelled as a result whose `raised` field is TRUE. *)
(***************************************************************************)
EXTENDS Integers, Sequences, FiniteSets

\* ------------------------------------------------------------------------
\* Bounds of the model
\* ------------------------------------------------------------------------
MaxPaths == 2
Slack == 1
TicksPerSecond == 2
MaxTopK == 2
MaxScanLen == 3
MaxSentences == 9

\* ------------------------------------------------------------------------
\* Program constants
\* ------------------------------------------------------------------------
chunk_size == 4
batch_size == 32
TTLMinutes == 20
DB_EXPIRY_INITIAL == 100

None == "None"

\* None where a collection (named by a number) is expected
NoCollection == 0 - 1

Min(a, b) == IF a < b THEN a ELSE b

\* the TTL, timedelta(minutes=20), in clock ticks
TTLTicks == TTLMinutes * 60 * TicksPerSecond
MaxTime == TTLTicks + Slack

\* ------------------------------------------------------------------------
\* The file system the calls run against
\* ------------------------------------------------------------------------
AllPaths ==
    { "docs/notes.md", "docs/big.txt", "docs/c.pdf", "docs/e.txt",
      "docs/empty.txt", "docs/locked.txt", "docs/missing.txt",
      "docs/six.txt" }

\* the paths the ingest calls of the session specifications draw from
IngestPaths ==
    { "docs/notes.md", "docs/c.pdf", "docs/empty.txt", "docs/missing.txt" }

\* the paths the ingest calls of the batching specification draw from
BatchPaths == { "docs/notes.md", "docs/big.txt" }

\* the paths the ingest calls of the ranking specification draw from
RankPaths == { "docs/notes.md", "docs/six.txt" }

PathExists(p) == p # "docs/missing.txt"

\* a read of this file raises (permission denied)
Unreadable(p) == p = "docs/locked.txt"

\* os.path.splitext(file_path)[1].lower()
FileExt(p) ==
    CASE p = "docs/notes.md" -> ".md"
      [] p = "docs/c.pdf" -> ".pdf"
      [] OTHER -> ".txt"

\* os.path.basename(file_path)
Basename(p) ==
    CASE p = "docs/notes.md" -> "notes.md"
      [] p = "docs/big.txt" -> "big.txt"
      [] p = "docs/c.pdf" -> "c.pdf"
      [] p = "docs/e.txt" -> "e.txt"
      [] p = "docs/empty.txt" -> "empty.txt"
      [] p = "docs/locked.txt" -> "locked.txt"
      [] p = "docs/six.txt" -> "six.txt"
      [] OTHER -> "missing.txt"

NumSentences(p) ==
    CASE p = "docs/notes.md" -> chunk_size + 1
      [] p = "docs/big.txt" -> chunk_size * batch_size + 1
      [] p = "docs/e.txt" -> 2
      [] p = "docs/six.txt" -> chunk_size * 6
      [] OTHER -> 0

\* sentence n of the text of file p; the text of docs/e.txt begins
\* with the word "Error"
Sentence(p, n) ==
    [src |-> p, n |-> n,
     word |-> IF p = "docs/e.txt" /\ n = 1 THEN "Error" ELSE "text"]

\* a text of s sentences in file p
TextOf(p, s) == [n \in 1..s |-> Sentence(p, n)]

\* file.read().strip() of a readable file
FileContent(p) == TextOf(p, NumSentences(p))

\* the messages extract_text returns in place of a text
NotFoundMsg(p) == << [src |-> p, n |-> 0, word |-> "Error"] >>
ReadErrorMsg(p) == << [src |-> p, n |-> 0, word |-> "Error"] >>
UnsupportedMsg(p) == << [src |-> p, n |-> 0, word |-> "Unsupported"] >>

SupportedExts == { ".txt", ".md" }

\* ------------------------------------------------------------------------
\* Text Extractor and Document Scanner
\* ------------------------------------------------------------------------
extract_text(file_path) ==
    IF ~PathExists(file_path) THEN NotFoundMsg(file_path)
    ELSE IF FileExt(file_path) \in SupportedExts
         THEN IF Unreadable(file_path) THEN ReadErrorMsg(file_path)
              ELSE FileContent(file_path)
         ELSE UnsupportedMsg(file_path)

\* text_content.startswith("Error")
StartsWithError(text_content) ==
    /\ Len(text_content) > 0
    /\ text_content[1].word = "Error"

Document(file_path, text_content) ==
    [file_path |-> file_path,
     filename |-> Basename(file_path),
     text_content |-> text_content,
     file_size |-> Len(text_content)]

RECURSIVE ScanFrom(_, _)
ScanFrom(file_paths, i) ==
    IF i > Len(file_paths) THEN << >>
    ELSE LET text_content == extract_text(file_paths[i])
         IN  (IF ~StartsWithError(text_content)
              THEN << Document(file_paths[i], text_content) >>
              ELSE << >>) \o ScanFrom(file_paths, i + 1)

find_and_scan(file_paths) == ScanFrom(file_paths, 1)

\* ------------------------------------------------------------------------
\* Faults of the external collaborators, injected into one call
\* ------------------------------------------------------------------------
Fault(kind, doc, batch) == [kind |-> kind, doc |-> doc, batch |-> batch]
NoFault == Fault("none", 0, 0)

\* ------------------------------------------------------------------------
\* Embedder: the shared encoding model
\* ------------------------------------------------------------------------
\* m is [CLIP_MODEL, CLIP_DEVICE]; open_clip.create_model_and_transforms
\* raises under the fault "model_init"
\* the initialisation without the test of CLIP_MODEL is None
init_clip_model_Always(m, fault) ==
    IF fault.kind = "model_init"
    THEN [raised |-> TRUE,
          m |-> [CLIP_MODEL |-> None, CLIP_DEVICE |-> "cpu"]]
    ELSE [raised |-> FALSE,
          m |-> [CLIP_MODEL |-> "ViT-B-32", CLIP_DEVICE |-> "cpu"]]

init_clip_model(m, fault) ==
    IF m.CLIP_MODEL = None
    THEN IF fault.kind = "model_init"
         THEN [raised |-> TRUE,
               m |-> [CLIP_MODEL |-> None, CLIP_DEVICE |-> "cpu"]]
         ELSE [raised |-> FALSE,
               m |-> [CLIP_MODEL |-> "ViT-B-32", CLIP_DEVICE |-> "cpu"]]
    ELSE [raised |-> FALSE, m |-> m]

\* ------------------------------------------------------------------------
\* Chunker
\* ------------------------------------------------------------------------
\* for i in range(0, len(sentences), chunk_size): sentences[i:i + chunk_size],
\* i counted from 1 here; a chunk text is the sequence of the sentences joined
\* the grouping loop with a slice one sentence short of its stride
RECURSIVE WindowsShortSlice(_, _)
WindowsShortSlice(sentences, i) ==
    IF i > Len(sentences) THEN << >>
    ELSE LET chunk_text == SubSeq(sentences, i,
                                  Min(i + chunk_size - 2, Len(sentences)))
         IN  (IF chunk_text # << >> THEN << chunk_text >> ELSE << >>)
             \o WindowsShortSlice(sentences, i + chunk_size)

RECURSIVE Windows(_, _)
Windows(sentences, i) ==
    IF i > Len(sentences) THEN << >>
    ELSE LET chunk_text == SubSeq(sentences, i,
                                  Min(i + chunk_size - 1, Len(sentences)))
         IN  (IF chunk_text # << >> THEN << chunk_text >> ELSE << >>)
             \o Windows(sentences, i + chunk_size)

\* sent_tokenize(text_content) followed by the grouping loop
ChunkTexts(text_content) == Windows(text_content, 1)

ChunkInfo(doc, chunks, chunk_idx) ==
    [chunk_id |-> << doc.filename, chunk_idx >>,
     file_path |-> doc.file_path,
     filename |-> doc.filename,
     chunk_text |-> chunks[chunk_idx + 1],
     chunk_index |-> chunk_idx,
     total_chunks |-> Len(chunks)]

\* the batch loop of one document: an exception in a batch (fault "embed"
\* on this document and batch) leaves the loop, the chunks of the batches
\* before it are already appended
RECURSIVE EmbedBatches(_, _, _, _, _)
EmbedBatches(doc, chunks, batch_start, doc_pos, fault) ==
    IF batch_start >= Len(chunks) THEN << >>
    ELSE IF /\ fault.kind = "embed"
            /\ fault.doc = doc_pos
            /\ fault.batch = (batch_start \div batch_size) + 1
         THEN << >>
         ELSE LET batch_len == Min(batch_size, Len(chunks) - batch_start)
              IN  [i \in 1..batch_len |->
                      ChunkInfo(doc, chunks, batch_start + i - 1)]
                  \o EmbedBatches(doc, chunks, batch_start + batch_size,
                                  doc_pos, fault)

RECURSIVE VectorizeFrom(_, _, _)
VectorizeFrom(documents, doc_pos, fault) ==
    IF doc_pos > Len(documents) THEN << >>
    ELSE LET doc == documents[doc_pos]
             chunks == ChunkTexts(doc.text_content)
         IN  EmbedBatches(doc, chunks, 0, doc_pos, fault)
             \o VectorizeFrom(documents, doc_pos + 1, fault)

chunk_and_vectorize(documents, m, fault) ==
    LET init == init_clip_model(m, fault)
    IN  IF init.raised
        THEN [raised |-> TRUE, chunks |-> << >>, m |-> init.m]
        ELSE [raised |-> FALSE,
              chunks |-> VectorizeFrom(documents, 1, fault),
              m |-> init.m]

\* ------------------------------------------------------------------------
\* Vector Store Session
\* ------------------------------------------------------------------------
\* a session s is [client, collection, expiry, disk]: the three globals
\* CHROMA_CLIENT, CHROMA_COLLECTION, DB_EXPIRY_TIME and the persisted index
\* directory, a function from collection names to the collection: the
\* instant it was created at and its entries

IntValue(v) == [type |-> "int", v |-> v]
DateTime(t) == [type |-> "datetime", v |-> t]

\* truth value of DB_EXPIRY_TIME in `CHROMA_CLIENT and DB_EXPIRY_TIME and ...`
Truthy(e) == e.type = "datetime" \/ e.v # 0

\* a name without the timestamp
CollectionNameFixed(current_time) == 0

\* f"documents_{int(current_time.timestamp())}": the whole seconds
CollectionName(current_time) == current_time \div TicksPerSecond

EmptyEntries == [id \in {} |-> None]

NewCollection(current_time) ==
    [created_at |-> current_time, entries |-> EmptyEntries]

InitSession ==
    [client |-> None, collection |-> NoCollection,
     expiry |-> IntValue(DB_EXPIRY_INITIAL),
     disk |-> [name \in {} |-> NewCollection(0)]]

\* a collection still served at the instant it expires
StillValidInclusive(current_time, expiry) == current_time <= expiry.v

\* current_time < DB_EXPIRY_TIME
StillValid(current_time, expiry) == current_time < expiry.v

init_chroma_db(s, current_time, fault) ==
    IF s.client # None /\ Truthy(s.expiry) /\ s.expiry.type = "int"
    THEN \* datetime < int raises TypeError
         [raised |-> TRUE, collection |-> NoCollection, fresh |-> FALSE, s |-> s]
    ELSE IF s.client # None /\ Truthy(s.expiry)
            /\ StillValid(current_time, s.expiry)
    THEN [raised |-> FALSE, collection |-> s.collection, fresh |-> FALSE,
          s |-> s]
    ELSE
      LET cleaned == IF s.client # None
                     THEN [s EXCEPT !.client = None, !.collection = NoCollection]
                     ELSE s
          opened == [cleaned EXCEPT !.client = "client"]
          collection_name == CollectionName(current_time)
          expires == DateTime(current_time + TTLTicks)
      IN  IF fault.kind = "client"
          THEN \* chromadb.PersistentClient raises
               [raised |-> TRUE, collection |-> NoCollection, fresh |-> FALSE,
                s |-> cleaned]
          ELSE IF fault.kind = "create"
          THEN \* create_collection raises, and so does get_collection
               [raised |-> TRUE, collection |-> NoCollection, fresh |-> FALSE,
                s |-> opened]
          ELSE IF collection_name \in DOMAIN s.disk
          THEN \* create_collection raises, get_collection finds the name
               [raised |-> FALSE, collection |-> collection_name,
                fresh |-> TRUE,
                s |-> [opened EXCEPT !.collection = collection_name,
                                     !.expiry = expires]]
          ELSE [raised |-> FALSE, collection |-> collection_name,
                fresh |-> TRUE,
                s |-> [opened EXCEPT
                         !.collection = collection_name,
                         !.expiry = expires,
                         !.disk = [name \in DOMAIN s.disk \cup {collection_name}
                                     |-> IF name = collection_name
                                         THEN NewCollection(current_time)
                                         ELSE s.disk[name]]]]

\* ------------------------------------------------------------------------
\* Result objects
\* ------------------------------------------------------------------------
Result(status, message) ==
    [status |-> status, message |-> message, chunks_count |-> 0,
     collection_name |-> NoCollection, retrieved |-> << >>, searched |-> 0,
     value |-> << >>]

\* an exception that leaves the function
Raised(message) == Result("raised", message)

NoAccess ==
    [time |-> 0 - 1, name |-> NoCollection, fresh |-> FALSE, expires |-> 0]

\* the successful return of init_chroma_db, as the caller observes it
AccessOf(got, current_time) ==
    IF got.raised THEN NoAccess
    ELSE [time |-> current_time, name |-> got.collection,
          fresh |-> got.fresh, expires |-> got.s.expiry.v]

\* ------------------------------------------------------------------------
\* Store write
\* ------------------------------------------------------------------------
ChunkIds(chunks) == { chunks[i].chunk_id : i \in 1..Len(chunks) }

\* collection.add: ids repeated within one call raise DuplicateIDError,
\* ids the collection already holds are left as they are
CollectionAdd(entries, chunks) ==
    [id \in DOMAIN entries \cup ChunkIds(chunks) |->
        IF id \in DOMAIN entries THEN entries[id]
        ELSE LET i == CHOOSE j \in 1..Len(chunks) : chunks[j].chunk_id = id
             IN  [file_path |-> chunks[i].file_path,
                  chunk_index |-> chunks[i].chunk_index,
                  total_chunks |-> chunks[i].total_chunks]]

push_to_db(vectorized_chunks, s, current_time, fault) ==
    LET got == init_chroma_db(s, current_time, fault)
        access == AccessOf(got, current_time)
    IN  IF got.raised
        THEN [result |-> Result("error", "Error storing in vector DB"),
              s |-> got.s, access |-> access]
        ELSE IF vectorized_chunks = << >>
        THEN [result |-> Result("error", "No chunks to store"),
              s |-> got.s, access |-> access]
        ELSE IF \/ fault.kind = "add"
                \/ Cardinality(ChunkIds(vectorized_chunks))
                     # Len(vectorized_chunks)
        THEN [result |-> Result("error", "Error storing in vector DB"),
              s |-> got.s, access |-> access]
        ELSE [result |->
                [Result("success", "Successfully stored chunks in vector DB")
                   EXCEPT !.chunks_count = Len(vectorized_chunks),
                          !.collection_name = got.collection],
              s |-> [got.s EXCEPT !.disk[got.collection].entries =
                       CollectionAdd(got.s.disk[got.collection].entries,
                                     vectorized_chunks)],
              access |-> access]

\* ------------------------------------------------------------------------
\* Ingestion pipeline and its tool
\* ------------------------------------------------------------------------
\* the pipeline resolving the collection before it looks at the chunks
ingest_documents_pipeline_StoreFirst(file_paths, s, m, current_time, fault) ==
    LET documents == find_and_scan(file_paths)
        cv == chunk_and_vectorize(documents, m, fault)
        pushed == push_to_db(cv.chunks, s, current_time, fault)
    IN  IF documents = << >>
        THEN [result |-> Result("error", "No documents could be processed"),
              s |-> s, m |-> m, access |-> NoAccess]
        ELSE IF cv.raised
        THEN [result |-> Result("error", "Pipeline error"),
              s |-> s, m |-> cv.m, access |-> NoAccess]
        ELSE IF cv.chunks = << >>
        THEN [result |-> Result("error", "No chunks could be vectorized"),
              s |-> pushed.s, m |-> cv.m, access |-> NoAccess]
        ELSE [result |-> pushed.result, s |-> pushed.s, m |-> cv.m,
              access |-> pushed.access]

\* the pipeline without its try/except
ingest_documents_pipeline_NoCatch(file_paths, s, m, current_time, fault) ==
    LET documents == find_and_scan(file_paths)
        cv == chunk_and_vectorize(documents, m, fault)
        pushed == push_to_db(cv.chunks, s, current_time, fault)
    IN  IF documents = << >>
        THEN [result |-> Result("error", "No documents could be processed"),
              s |-> s, m |-> m, access |-> NoAccess]
        ELSE IF cv.raised
        THEN [result |-> Raised("chunk_and_vectorize"),
              s |-> s, m |-> cv.m, access |-> NoAccess]
        ELSE IF cv.chunks = << >>
        THEN [result |-> Result("error", "No chunks could be vectorized"),
              s |-> s, m |-> cv.m, access |-> NoAccess]
        ELSE [result |-> pushed.result, s |-> pushed.s, m |-> cv.m,
              access |-> pushed.access]

ingest_documents_pipeline(file_paths, s, m, current_time, fault) ==
    LET documents == find_and_scan(file_paths)
        cv == chunk_and_vectorize(documents, m, fault)
        pushed == push_to_db(cv.chunks, s, current_time, fault)
    IN  IF documents = << >>
        THEN [result |-> Result("error", "No documents could be processed"),
              s |-> s, m |-> m, access |-> NoAccess]
        ELSE IF cv.raised
        THEN [result |-> Result("error", "Pipeline error"),
              s |-> s, m |-> cv.m, access |-> NoAccess]
        ELSE IF cv.chunks = << >>
        THEN [result |-> Result("error", "No chunks could be vectorized"),
              s |-> s, m |-> cv.m, access |-> NoAccess]
        ELSE [result |-> pushed.result, s |-> pushed.s, m |-> cv.m,
              access |-> pushed.access]

\* the tool without its check of the path list
ingest_documents_NoGuard(file_paths, s, m, current_time, fault) ==
    ingest_documents_pipeline(file_paths, s, m, current_time, fault)

\* the tool ingest_documents of the server; its text answer is modelled by
\* the status and the message it renders
ingest_documents(file_paths, s, m, current_time, fault) ==
    IF file_paths = << >>
    THEN [result |-> Result("error", "No file paths provided for ingestion"),
          s |-> s, m |-> m, access |-> NoAccess]
    ELSE ingest_documents_pipeline(file_paths, s, m, current_time, fault)

\* ------------------------------------------------------------------------
\* Retrieval
\* ------------------------------------------------------------------------
Queries == { "", " ", "alpha", " omega " }

\* user_question.strip()
Strip(q) ==
    CASE q = " " -> ""
      [] q = " omega " -> "omega"
      [] OTHER -> q

FileOrd(filename) ==
    CASE filename = "big.txt" -> 1
      [] filename = "c.pdf" -> 2
      [] filename = "notes.md" -> 3
      [] filename = "six.txt" -> 4
      [] OTHER -> 5

\* the ranking of the index for a query vector: nearest first
Nearer(q, a, b) ==
    LET lower == \/ FileOrd(a[1]) < FileOrd(b[1])
                 \/ FileOrd(a[1]) = FileOrd(b[1]) /\ a[2] < b[2]
    IN  IF q = "alpha" THEN lower ELSE ~lower

\* collection.query(n_results = n): the ids of the n nearest entries
RECURSIVE Nearest(_, _, _)
Nearest(ids, n, q) ==
    IF n <= 0 \/ ids = {} THEN << >>
    ELSE LET first == CHOOSE a \in ids :
                          \A b \in ids \ {a} : Nearer(q, a, b)
         IN  << first >> \o Nearest(ids \ {first}, n - 1, q)

\* the loop over the hits keeping every hit, seen or not
RECURSIVE UniqueNoSeen(_, _, _)
UniqueNoSeen(ids, i, seen_chunk_ids) ==
    IF i > Len(ids) THEN << >>
    ELSE << ids[i] >> \o UniqueNoSeen(ids, i + 1, seen_chunk_ids \cup {ids[i]})

\* the loop over the hits with seen_chunk_ids
RECURSIVE Unique(_, _, _)
Unique(ids, i, seen_chunk_ids) ==
    IF i > Len(ids) THEN << >>
    ELSE IF ids[i] \notin seen_chunk_ids
         THEN << ids[i] >> \o Unique(ids, i + 1, seen_chunk_ids \cup {ids[i]})
         ELSE Unique(ids, i + 1, seen_chunk_ids)

\* vectorize_user_query: the model is initialized on first use, the encoding
\* raises under the fault "encode"
vectorize_user_query(m, fault) ==
    LET init == init_clip_model(m, fault)
    IN  [raised |-> init.raised \/ fault.kind = "encode", m |-> init.m]

\* the retrieval embedding the query before it counts the collection
cosine_similarity_and_retrieve_EmbedFirst(user_query, top_k, s, m, current_time, fault) ==
    LET got == init_chroma_db(s, current_time, fault)
        access == AccessOf(got, current_time)
        entries == got.s.disk[got.collection].entries
        collection_count == Cardinality(DOMAIN entries)
        vec == vectorize_user_query(m, fault)
        n_results == Min(top_k, collection_count)
        ranked == Nearest(DOMAIN entries, n_results, user_query)
        \* an index that answers with its first hit repeated
        ids == IF fault.kind = "duplicate_hit" /\ Len(ranked) >= 2
               THEN [ranked EXCEPT ![2] = ranked[1]]
               ELSE ranked
        failed(mm) == [result |-> Result("error", "Error during retrieval"),
                       s |-> got.s, m |-> mm, access |-> access]
    IN  IF got.raised THEN failed(m)
        ELSE IF got.collection = NoCollection
        THEN [result |-> Result("error", "ChromaDB collection not available"),
              s |-> got.s, m |-> m, access |-> access]
        ELSE IF vec.raised THEN failed(vec.m)
        ELSE IF fault.kind = "count" THEN failed(vec.m)
        ELSE IF collection_count = 0
        THEN [result |->
                Result("error", "No documents found in vector database"),
              s |-> got.s, m |-> vec.m, access |-> access]
        ELSE IF n_results <= 0 \/ fault.kind = "query" THEN failed(vec.m)
        ELSE [result |-> [Result("success", user_query)
                            EXCEPT !.retrieved = Unique(ids, 1, {}),
                                   !.searched = collection_count],
              s |-> got.s, m |-> vec.m, access |-> access]

cosine_similarity_and_retrieve(user_query, top_k, s, m, current_time, fault) ==
    LET got == init_chroma_db(s, current_time, fault)
        access == AccessOf(got, current_time)
        entries == got.s.disk[got.collection].entries
        collection_count == Cardinality(DOMAIN entries)
        vec == vectorize_user_query(m, fault)
        n_results == Min(top_k, collection_count)
        ranked == Nearest(DOMAIN entries, n_results, user_query)
        \* an index that answers with its first hit repeated
        ids == IF fault.kind = "duplicate_hit" /\ Len(ranked) >= 2
               THEN [ranked EXCEPT ![2] = ranked[1]]
               ELSE ranked
        failed(mm) == [result |-> Result("error", "Error during retrieval"),
                       s |-> got.s, m |-> mm, access |-> access]
    IN  IF got.raised THEN failed(m)
        ELSE IF got.collection = NoCollection
        THEN [result |-> Result("error", "ChromaDB collection not available"),
              s |-> got.s, m |-> m, access |-> access]
        ELSE IF fault.kind = "count" THEN failed(m)
        ELSE IF collection_count = 0
        THEN [result |->
                Result("error", "No documents found in vector database"),
              s |-> got.s, m |-> m, access |-> access]
        ELSE IF vec.raised THEN failed(vec.m)
        ELSE IF n_results <= 0 \/ fault.kind = "query" THEN failed(vec.m)
        ELSE [result |-> [Result("success", user_query)
                            EXCEPT !.retrieved = Unique(ids, 1, {}),
                                   !.searched = collection_count],
              s |-> got.s, m |-> vec.m, access |-> access]

retrieve_documents_pipeline(user_query, top_k, s, m, current_time, fault) ==
    LET r == cosine_similarity_and_retrieve(user_query, top_k, s, m,
                                            current_time, fault)
    IN  IF r.result.status = "raised"
        THEN [r EXCEPT !.result = Result("error", "Pipeline error")]
        ELSE r

\* the tool testing the question for emptiness only, not after strip()
retrieve_relevant_chunks_NoStrip(user_question, top_k, s, m, current_time, fault) ==
    IF user_question = ""
    THEN [result |-> Result("error", "No user question provided for retrieval"),
          s |-> s, m |-> m, access |-> NoAccess]
    ELSE retrieve_documents_pipeline(Strip(user_question), top_k, s, m,
                                     current_time, fault)

\* the tool retrieve_relevant_chunks of the server
retrieve_relevant_chunks(user_question, top_k, s, m, current_time, fault) ==
    IF user_question = "" \/ Strip(user_question) = ""
    THEN [result |-> Result("error", "No user question provided for retrieval"),
          s |-> s, m |-> m, access |-> NoAccess]
    ELSE retrieve_documents_pipeline(Strip(user_question), top_k, s, m,
                                     current_time, fault)

\* ------------------------------------------------------------------------
\* State
\* ------------------------------------------------------------------------
VARIABLES
    CHROMA_CLIENT,      \* None or the client
    CHROMA_COLLECTION,  \* None or the name of the active collection
    DB_EXPIRY_TIME,     \* the int it is initialized with, or a datetime
    disk,               \* the persisted index: name -> entries
    CLIP_MODEL,         \* None or the loaded model
    CLIP_DEVICE,        \* None or the device
    now,                \* the wall clock, in ticks
    pc,                 \* "idle", or "returned" while a result is delivered
    call,               \* the call that returned
    result,             \* what it returned
    access,             \* what init_chroma_db returned to it
    earlier,            \* an earlier return of init_chroma_db, remembered
    callers             \* concurrent callers of push_to_db: where each is

vars == << CHROMA_CLIENT, CHROMA_COLLECTION, DB_EXPIRY_TIME, disk,
           CLIP_MODEL, CLIP_DEVICE, now, pc, call, result, access, earlier,
           callers >>

Session ==
    [client |-> CHROMA_CLIENT, collection |-> CHROMA_COLLECTION,
     expiry |-> DB_EXPIRY_TIME, disk |-> disk]

Model == [CLIP_MODEL |-> CLIP_MODEL, CLIP_DEVICE |-> CLIP_DEVICE]

Call(op, entry, file_paths, user_query, top_k, fault) ==
    [op |-> op, entry |-> entry, file_paths |-> file_paths,
     user_query |-> user_query, top_k |-> top_k, fault |-> fault,
     documents |-> << >>, time |-> now]

NoCall ==
    [op |-> "none", entry |-> "none", file_paths |-> << >>,
     user_query |-> "", top_k |-> 0, fault |-> NoFault,
     documents |-> << >>, time |-> 0]

NoResult == Result("none", "")

\* the threads that call push_to_db at the same time, and the file whose
\* chunks each of them writes
Callers == { "A", "B" }

CallerPath(t) == IF t = "A" THEN "docs/notes.md" ELSE "docs/six.txt"

CallerChunks(t) ==
    chunk_and_vectorize(find_and_scan(<< CallerPath(t) >>),
                        [CLIP_MODEL |-> "ViT-B-32", CLIP_DEVICE |-> "cpu"],
                        NoFault).chunks

\* a caller: the line of init_chroma_db or push_to_db it is about to run,
\* its local current_time and collection, and the result it returned
NoCaller ==
    [at |-> "idle", current_time |-> 0, collection |-> NoCollection,
     result |-> NoResult]

Init ==
    /\ CHROMA_CLIENT = InitSession.client
    /\ CHROMA_COLLECTION = InitSession.collection
    /\ DB_EXPIRY_TIME = InitSession.expiry
    /\ disk = InitSession.disk
    /\ CLIP_MODEL = None
    /\ CLIP_DEVICE = None
    /\ now = 0
    /\ pc = "idle"
    /\ call = NoCall
    /\ result = NoResult
    /\ access = NoAccess
    /\ earlier = NoAccess
    /\ callers = [t \in Callers |-> NoCaller]

\* the globals after a call that left the session s and the model m
Returns(r, c) ==
    /\ CHROMA_CLIENT' = r.s.client
    /\ CHROMA_COLLECTION' = r.s.collection
    /\ DB_EXPIRY_TIME' = r.s.expiry
    /\ disk' = r.s.disk
    /\ CLIP_MODEL' = r.m.CLIP_MODEL
    /\ CLIP_DEVICE' = r.m.CLIP_DEVICE
    /\ result' = r.result
    /\ access' = r.access
    /\ call' = c
    /\ pc' = "returned"
    /\ UNCHANGED << now, earlier, callers >>

\* ------------------------------------------------------------------------
\* Inputs
\* ------------------------------------------------------------------------
ListsOver(paths, n) == UNION { [1..k -> paths] : k \in 0..n }

PathLists == ListsOver(IngestPaths, MaxPaths)

BatchLists == ListsOver(BatchPaths, MaxPaths)

RankLists == ListsOver(RankPaths, MaxPaths)

\* the values of top_k of the ranking specification, up to one more than
\* the session specifications use
RankTopKs == 0..(MaxTopK + 1)

ScanLists == ListsOver(AllPaths, MaxScanLen)

\* the documents a direct call of chunk_and_vectorize is given: one or two
\* documents with texts of up to MaxSentences sentences
SizedDocument(p, n) == Document(p, TextOf(p, n))

DocumentLists ==
    { << SizedDocument("docs/notes.md", n) >> : n \in 0..MaxSentences }
    \cup { << SizedDocument("docs/notes.md", n1),
              SizedDocument("docs/big.txt", n2) >> :
             n1 \in 0..MaxSentences, n2 \in 0..MaxSentences }

TopKs == 0..MaxTopK

\* the batches the embedding of a text goes through
NumBatches(text_content) ==
    (Len(ChunkTexts(text_content)) + batch_size - 1) \div batch_size

EmbedFaults(documents) ==
    { Fault("embed", i, b) :
        i \in 1..Len(documents),
        b \in 1..NumBatches(FileContent("docs/big.txt")) }

IngestFaults(file_paths) ==
    { NoFault, Fault("model_init", 0, 0), Fault("client", 0, 0),
      Fault("create", 0, 0), Fault("add", 0, 0) }
    \cup EmbedFaults(find_and_scan(file_paths))

RetrieveFaults ==
    { NoFault, Fault("client", 0, 0), Fault("create", 0, 0),
      Fault("count", 0, 0), Fault("model_init", 0, 0),
      Fault("encode", 0, 0), Fault("query", 0, 0) }

RankFaults == RetrieveFaults \cup { Fault("duplicate_hit", 0, 0) }

AccessFaults == { NoFault, Fault("client", 0, 0), Fault("create", 0, 0) }

\* the instants the clock is read at: the first ticks of the process, and
\* the ticks around the expiry of a collection created then
Instants == (0..Slack) \cup ((TTLTicks - 1)..MaxTime)

\* a fault is recorded with a call only when the call ran into it
Hit(with_fault, without) == with_fault # without

\* ------------------------------------------------------------------------
\* Actions: one per entry point, each a whole call
\* ------------------------------------------------------------------------
IngestToolFrom(lists) ==
    /\ pc = "idle"
    /\ \E file_paths \in lists :
       \E fault \in IngestFaults(file_paths) :
          LET r == ingest_documents(file_paths, Session, Model, now, fault)
              r0 == ingest_documents(file_paths, Session, Model, now, NoFault)
          IN  /\ fault = NoFault \/ Hit(r, r0)
              /\ Returns(r, Call("ingest", "tool", file_paths, "", 0, fault))

IngestPipelineFrom(lists) ==
    /\ pc = "idle"
    /\ \E file_paths \in lists :
       \E fault \in IngestFaults(file_paths) :
          LET r == ingest_documents_pipeline(file_paths, Session, Model, now,
                                             fault)
              r0 == ingest_documents_pipeline(file_paths, Session, Model, now,
                                              NoFault)
          IN  /\ fault = NoFault \/ Hit(r, r0)
              /\ Returns(r, Call("ingest", "pipeline", file_paths, "", 0,
                                 fault))

IngestTool == IngestToolFrom(PathLists)

IngestPipeline == IngestPipelineFrom(PathLists)

\* the same calls on the paths of the batching specification
IngestToolBatch == IngestToolFrom(BatchLists)

IngestPipelineBatch == IngestPipelineFrom(BatchLists)

RetrieveTool ==
    /\ pc = "idle"
    /\ \E user_question \in Queries, top_k \in TopKs, fault \in RetrieveFaults :
          LET r == retrieve_relevant_chunks(user_question, top_k, Session,
                                            Model, now, fault)
              r0 == retrieve_relevant_chunks(user_question, top_k, Session,
                                             Model, now, NoFault)
          IN  /\ fault = NoFault \/ Hit(r, r0)
              /\ Returns(r, Call("retrieve", "tool", << >>, user_question,
                                 top_k, fault))

RetrievePipeline ==
    /\ pc = "idle"
    /\ \E user_query \in Queries, top_k \in TopKs, fault \in RetrieveFaults :
          LET r == retrieve_documents_pipeline(user_query, top_k, Session,
                                               Model, now, fault)
              r0 == retrieve_documents_pipeline(user_query, top_k, Session,
                                                Model, now, NoFault)
          IN  /\ fault = NoFault \/ Hit(r, r0)
              /\ Returns(r, Call("retrieve", "pipeline", << >>, user_query,
                                 top_k, fault))

\* ingest and retrieve calls of the ranking specification
IngestPipelineRank == IngestPipelineFrom(RankLists)

RetrievePipelineRank ==
    /\ pc = "idle"
    /\ \E user_query \in Queries, top_k \in RankTopKs, fault \in RankFaults :
          LET r == retrieve_documents_pipeline(user_query, top_k, Session,
                                               Model, now, fault)
              r0 == retrieve_documents_pipeline(user_query, top_k, Session,
                                                Model, now, NoFault)
          IN  /\ fault = NoFault \/ Hit(r, r0)
              /\ Returns(r, Call("retrieve", "pipeline", << >>, user_query,
                                 top_k, fault))

\* a direct call of init_chroma_db, as the driver's persistence test makes;
\* an exception reaches the caller
InitChromaDb ==
    /\ pc = "idle"
    /\ \E fault \in AccessFaults :
          LET got == init_chroma_db(Session, now, fault)
              got0 == init_chroma_db(Session, now, NoFault)
              r == [result |-> IF got.raised
                               THEN Raised("init_chroma_db")
                               ELSE [Result("success", "init_chroma_db")
                                       EXCEPT !.collection_name =
                                                  got.collection],
                    s |-> got.s, m |-> Model,
                    access |-> AccessOf(got, now)]
          IN  /\ fault = NoFault \/ Hit(got, got0)
              /\ Returns(r, Call("init_chroma_db", "direct", << >>, "", 0,
                                 fault))

\* the chunks a direct call of push_to_db is given: those of the documents
\* scanned from the paths, none for no path and for an empty file
PushLists == ListsOver({ "docs/notes.md", "docs/empty.txt" }, 1)

GivenChunks(file_paths) ==
    chunk_and_vectorize(find_and_scan(file_paths),
                        [CLIP_MODEL |-> "ViT-B-32", CLIP_DEVICE |-> "cpu"],
                        NoFault).chunks

StoreFaults == AccessFaults \cup { Fault("add", 0, 0) }

\* a direct call of push_to_db, as the driver's store test makes
PushToDb ==
    /\ pc = "idle"
    /\ \E file_paths \in PushLists, fault \in StoreFaults :
          LET pushed == push_to_db(GivenChunks(file_paths), Session, now,
                                   fault)
              pushed0 == push_to_db(GivenChunks(file_paths), Session, now,
                                    NoFault)
          IN  /\ fault = NoFault \/ Hit(pushed, pushed0)
              /\ Returns([result |-> pushed.result, s |-> pushed.s,
                          m |-> Model, access |-> pushed.access],
                         Call("push_to_db", "direct", file_paths, "", 0,
                              fault))

\* a direct call of find_and_scan, as the driver's scanner test makes
FindAndScan ==
    /\ pc = "idle"
    /\ \E file_paths \in ScanLists :
          Returns([result |-> [Result("success", "find_and_scan")
                                 EXCEPT !.value = find_and_scan(file_paths)],
                   s |-> Session, m |-> Model, access |-> NoAccess],
                  Call("find_and_scan", "direct", file_paths, "", 0, NoFault))

\* a direct call of chunk_and_vectorize, as the driver's chunking test makes;
\* an exception reaches the caller
ChunkAndVectorize ==
    /\ pc = "idle"
    /\ \E documents \in DocumentLists :
       \E fault \in { NoFault, Fault("model_init", 0, 0) }
                      \cup EmbedFaults(documents) :
          LET cv == chunk_and_vectorize(documents, Model, fault)
              cv0 == chunk_and_vectorize(documents, Model, NoFault)
          IN  /\ fault = NoFault \/ Hit(cv, cv0)
              /\ Returns([result |-> IF cv.raised
                                     THEN Raised("chunk_and_vectorize")
                                     ELSE [Result("success",
                                                  "chunk_and_vectorize")
                                             EXCEPT !.value = cv.chunks],
                          s |-> Session, m |-> cv.m, access |-> NoAccess],
                         [Call("chunk_and_vectorize", "direct", << >>, "", 0,
                               fault) EXCEPT !.documents = documents])

\* ------------------------------------------------------------------------
\* Concurrent callers of push_to_db, one statement of init_chroma_db a step
\* ------------------------------------------------------------------------
RaceFrame ==
    UNCHANGED << CLIP_MODEL, CLIP_DEVICE, now, pc, call, result, access,
                 earlier >>

\* push_to_db is called and calls init_chroma_db
BeginWrite(t) ==
    /\ callers[t].at = "idle"
    /\ callers' = [callers EXCEPT ![t] = [NoCaller EXCEPT !.at = "l51"]]
    /\ RaceFrame
    /\ UNCHANGED << CHROMA_CLIENT, CHROMA_COLLECTION, DB_EXPIRY_TIME, disk >>

\* current_time = datetime.now()
ReadClock(t) ==
    /\ callers[t].at = "l51"
    /\ callers' = [callers EXCEPT ![t].at = "l54", ![t].current_time = now]
    /\ RaceFrame
    /\ UNCHANGED << CHROMA_CLIENT, CHROMA_COLLECTION, DB_EXPIRY_TIME, disk >>

\* if CHROMA_CLIENT and DB_EXPIRY_TIME and current_time < DB_EXPIRY_TIME:
\*     return CHROMA_COLLECTION
CheckValid(t) ==
    /\ callers[t].at = "l54"
    /\ callers' =
          IF CHROMA_CLIENT # None /\ Truthy(DB_EXPIRY_TIME)
          THEN IF DB_EXPIRY_TIME.type = "int"
               THEN \* TypeError, caught by push_to_db
                    [callers EXCEPT
                       ![t].at = "done",
                       ![t].result =
                           Result("error", "Error storing in vector DB")]
               ELSE IF StillValid(callers[t].current_time, DB_EXPIRY_TIME)
               THEN [callers EXCEPT ![t].at = "add",
                                    ![t].collection = CHROMA_COLLECTION]
               ELSE [callers EXCEPT ![t].at = "l58"]
          ELSE [callers EXCEPT ![t].at = "l58"]
    /\ RaceFrame
    /\ UNCHANGED << CHROMA_CLIENT, CHROMA_COLLECTION, DB_EXPIRY_TIME, disk >>

\* if CHROMA_CLIENT: CHROMA_CLIENT = None; CHROMA_COLLECTION = None
CleanUp(t) ==
    /\ callers[t].at = "l58"
    /\ callers' = [callers EXCEPT ![t].at = "l63"]
    /\ IF CHROMA_CLIENT # None
       THEN CHROMA_CLIENT' = None /\ CHROMA_COLLECTION' = NoCollection
       ELSE UNCHANGED << CHROMA_CLIENT, CHROMA_COLLECTION >>
    /\ RaceFrame
    /\ UNCHANGED << DB_EXPIRY_TIME, disk >>

\* CHROMA_CLIENT = chromadb.PersistentClient(path=DB_PERSIST_PATH)
OpenClient(t) ==
    /\ callers[t].at = "l63"
    /\ callers' = [callers EXCEPT ![t].at = "l66"]
    /\ CHROMA_CLIENT' = "client"
    /\ RaceFrame
    /\ UNCHANGED << CHROMA_COLLECTION, DB_EXPIRY_TIME, disk >>

\* the assignment to CHROMA_COLLECTION keeping a collection another caller
\* has assigned meanwhile
AssignedCollectionFirstWins(current, current_time) ==
    IF current # NoCollection THEN current ELSE CollectionName(current_time)

\* CHROMA_COLLECTION = create_collection(name=collection_name), or
\* get_collection: the value assigned, whatever the global holds
AssignedCollection(current, current_time) == CollectionName(current_time)

CreateCollection(t) ==
    LET assigned == AssignedCollection(CHROMA_COLLECTION,
                                       callers[t].current_time)
    IN  /\ callers[t].at = "l66"
        /\ callers' = [callers EXCEPT ![t].at = "l77"]
        /\ CHROMA_COLLECTION' = assigned
        /\ disk' = IF assigned \in DOMAIN disk THEN disk
                   ELSE [name \in DOMAIN disk \cup {assigned} |->
                           IF name = assigned
                           THEN NewCollection(callers[t].current_time)
                           ELSE disk[name]]
        /\ RaceFrame
        /\ UNCHANGED << CHROMA_CLIENT, DB_EXPIRY_TIME >>

\* DB_EXPIRY_TIME = current_time + timedelta(minutes=20)
SetExpiry(t) ==
    /\ callers[t].at = "l77"
    /\ callers' = [callers EXCEPT ![t].at = "l79"]
    /\ DB_EXPIRY_TIME' = DateTime(callers[t].current_time + TTLTicks)
    /\ RaceFrame
    /\ UNCHANGED << CHROMA_CLIENT, CHROMA_COLLECTION, disk >>

\* return CHROMA_COLLECTION
ReturnCollection(t) ==
    /\ callers[t].at = "l79"
    /\ callers' = [callers EXCEPT ![t].at = "add",
                                  ![t].collection = CHROMA_COLLECTION]
    /\ RaceFrame
    /\ UNCHANGED << CHROMA_CLIENT, CHROMA_COLLECTION, DB_EXPIRY_TIME, disk >>

\* collection.add(...) and the result of push_to_db; on None it raises
\* AttributeError, on ids repeated in the call DuplicateIDError
AddChunks(t) ==
    LET collection == callers[t].collection
        chunks == CallerChunks(t)
    IN  /\ callers[t].at = "add"
        /\ IF collection = NoCollection
           THEN /\ callers' =
                     [callers EXCEPT
                        ![t].at = "done",
                        ![t].result =
                            Result("error", "Error storing in vector DB")]
                /\ UNCHANGED disk
           ELSE /\ callers' =
                     [callers EXCEPT
                        ![t].at = "done",
                        ![t].result =
                            [Result("success",
                                    "Successfully stored chunks in vector DB")
                               EXCEPT !.chunks_count = Len(chunks),
                                      !.collection_name = collection]]
                /\ disk' = [disk EXCEPT ![collection].entries =
                              CollectionAdd(disk[collection].entries, chunks)]
        /\ RaceFrame
        /\ UNCHANGED << CHROMA_CLIENT, CHROMA_COLLECTION, DB_EXPIRY_TIME >>

\* the caller takes the result
Respond ==
    /\ pc = "returned"
    /\ pc' = "idle"
    /\ call' = NoCall
    /\ result' = NoResult
    /\ access' = NoAccess
    /\ UNCHANGED << CHROMA_CLIENT, CHROMA_COLLECTION, DB_EXPIRY_TIME, disk,
                    CLIP_MODEL, CLIP_DEVICE, now, earlier, callers >>

\* the caller takes the result and remembers what init_chroma_db gave it,
\* to compare a later return with
Remember ==
    /\ pc = "returned"
    /\ earlier = NoAccess
    /\ access # NoAccess
    /\ pc' = "idle"
    /\ call' = NoCall
    /\ result' = NoResult
    /\ access' = NoAccess
    /\ earlier' = access
    /\ UNCHANGED << CHROMA_CLIENT, CHROMA_COLLECTION, DB_EXPIRY_TIME, disk,
                    CLIP_MODEL, CLIP_DEVICE, now, callers >>

Tick ==
    /\ pc = "idle"
    /\ \E t \in Instants :
          /\ t > now
          /\ now' = t
    /\ UNCHANGED << CHROMA_CLIENT, CHROMA_COLLECTION, DB_EXPIRY_TIME, disk,
                    CLIP_MODEL, CLIP_DEVICE, pc, call, result, access,
                    earlier, callers >>

\* ------------------------------------------------------------------------
\* Specifications
\* ------------------------------------------------------------------------
\* the session: ingest and retrieve calls while the clock runs
Next ==
    \/ IngestTool
    \/ IngestPipeline
    \/ RetrieveTool
    \/ RetrievePipeline
    \/ InitChromaDb
    \/ Respond
    \/ Tick

Spec == Init /\ [][Next]_vars

\* the rotation of the collection: accesses while the clock runs, one
\* earlier access remembered
NextTTL ==
    \/ InitChromaDb
    \/ RetrievePipeline
    \/ Respond
    \/ Remember
    \/ Tick

SpecTTL == Init /\ [][NextTTL]_vars

\* ingest calls on a document of more than one embedding batch
NextBatch ==
    \/ IngestToolBatch
    \/ IngestPipelineBatch
    \/ Respond

SpecBatch == Init /\ [][NextBatch]_vars

\* the scanner alone
NextScan ==
    \/ FindAndScan
    \/ Respond

SpecScan == Init /\ [][NextScan]_vars

\* the chunker and embedder alone
NextChunker ==
    \/ ChunkAndVectorize
    \/ Respond

SpecChunker == Init /\ [][NextChunker]_vars

\* the ranking of the retrieved chunks: ingests, then retrieves
NextRank ==
    \/ IngestPipelineRank
    \/ RetrievePipelineRank
    \/ Respond

SpecRank == Init /\ [][NextRank]_vars

\* the store written directly while the clock runs
NextStore ==
    \/ PushToDb
    \/ Respond
    \/ Tick

SpecStore == Init /\ [][NextStore]_vars

\* two callers of push_to_db, one call each, running at the same time while
\* the clock runs
NextRace ==
    \/ \E t \in Callers :
          \/ BeginWrite(t)
          \/ ReadClock(t)
          \/ CheckValid(t)
          \/ CleanUp(t)
          \/ OpenClient(t)
          \/ CreateCollection(t)
          \/ SetExpiry(t)
          \/ ReturnCollection(t)
          \/ AddChunks(t)
    \/ Tick

SpecRace == Init /\ [][NextRace]_vars

\* ------------------------------------------------------------------------
\* Properties
\* ------------------------------------------------------------------------
\* two returns of init_chroma_db: the remembered one and the one of the call
\* that has just returned
TwoAccesses == pc = "returned" /\ earlier # NoAccess /\ access # NoAccess

\* C1, as stated: two calls of init_chroma_db less than the TTL apart return
\* the same collection name, two calls more than the TTL apart return
\* different names.
C1_AsStated ==
    TwoAccesses =>
        /\ access.time - earlier.time < TTLTicks => access.name = earlier.name
        /\ access.time - earlier.time > TTLTicks => access.name # earlier.name

\* C1, amended: two calls of init_chroma_db return the same collection name
\* when the second is made before the expiry (creation + TTL) of the
\* collection the first one returned, and different names when they are
\* more than the TTL apart.
C1_TTLRotation ==
    TwoAccesses =>
        /\ access.time < earlier.expires => access.name = earlier.name
        /\ access.time - earlier.time > TTLTicks => access.name # earlier.name

\* C1 witness: a return more than the TTL after the remembered one, from a
\* collection created for it.
C1_Witness ==
    /\ TwoAccesses
    /\ access.time - earlier.time > TTLTicks
    /\ access.name # earlier.name
    /\ access.fresh

\* a retrieve call has just returned
RetrieveReturned == pc = "returned" /\ call.op = "retrieve"

\* the collection G has expired at instant t
ExpiredAt(G, t) == t >= disk[G].created_at + TTLTicks

EmptyCollectionError ==
    /\ result.status = "error"
    /\ result.message = "No documents found in vector database"

C2_Unreachable ==
    RetrieveReturned =>
        /\ \A G \in DOMAIN disk : ExpiredAt(G, call.time) => access.name # G
        /\ result.status = "success" =>
              /\ access.name \in DOMAIN disk
              /\ \A i \in 1..Len(result.retrieved) :
                    result.retrieved[i] \in DOMAIN disk[access.name].entries
        /\ ( /\ access # NoAccess
             /\ disk[access.name].entries = EmptyEntries
             /\ call.fault.kind # "count" ) => EmptyCollectionError

C2_NeverDeleted ==
    \A G \in DOMAIN disk :
        /\ G \in DOMAIN disk'
        /\ DOMAIN disk[G].entries \subseteq DOMAIN disk'[G].entries

\* C2: a retrieve issued at or after the expiry of a collection G is never
\* served from G, what it returns comes from the collection it was served
\* from, and while that collection holds no entry (no ingest has succeeded
\* since the rotation) it returns the empty-collection error; no step removes
\* G or an entry of G from the persisted index.
C2_Retirement == [][C2_Unreachable' /\ C2_NeverDeleted]_vars

\* C2 witness: a retrieve has rotated away from an expired collection that
\* holds chunks, and returned the empty-collection error.
C2_Witness ==
    /\ RetrieveReturned
    /\ access.fresh
    /\ EmptyCollectionError
    /\ \E G \in DOMAIN disk :
          /\ ExpiredAt(G, call.time)
          /\ disk[G].entries # EmptyEntries

\* a call that reaches init_chroma_db whatever the store holds returns
AccessStep ==
    /\ pc = "idle"
    /\ pc' = "returned"
    /\ \/ call'.op = "init_chroma_db"
       \/ call'.op = "retrieve" /\ call'.entry = "pipeline"

\* a collection exists and has not expired
Live ==
    /\ CHROMA_COLLECTION # NoCollection
    /\ DB_EXPIRY_TIME.type = "datetime"
    /\ now < DB_EXPIRY_TIME.v

\* an access while the collection is live returns it and changes nothing
C3_Frame ==
    Live =>
        /\ access'.name = CHROMA_COLLECTION
        /\ ~access'.fresh
        /\ UNCHANGED << CHROMA_CLIENT, CHROMA_COLLECTION, DB_EXPIRY_TIME,
                        disk >>

\* the expiry of a collection is its creation + TTL
C3_Expiry ==
    CHROMA_COLLECTION' # NoCollection =>
        DB_EXPIRY_TIME' =
            DateTime(disk'[CHROMA_COLLECTION'].created_at + TTLTicks)

\* a collection is created only when none exists or the current one expired
C3_CreatedOnlyThen == access'.fresh => ~Live

\* a collection is created whenever none exists or the current one expired,
\* the index provider working
C3_CreatedThen == (~Live /\ call'.fault = NoFault) => access'.fresh

\* C3, as stated: an access while now < expires_at returns the current
\* collection and changes nothing, the expiry is always creation + TTL, and
\* a new collection is created exactly when none exists or now >= expires_at.
C3_AsStated ==
    [][AccessStep =>
          C3_Frame /\ C3_Expiry /\ C3_CreatedOnlyThen /\ C3_CreatedThen]_vars

\* the part of C3 that holds of the code: all but "whenever none exists"
C3_FramePart ==
    [][AccessStep => C3_Frame /\ C3_Expiry /\ C3_CreatedOnlyThen]_vars

\* the extension of an existing path is outside the supported set
Unsupported(p) == PathExists(p) /\ FileExt(p) \notin SupportedExts

\* C4, as stated: for a path whose extension is outside the supported set
\* extraction yields the unsupported-format failure, and (the scanner having
\* skipped it) no chunk derived from it is ever in the store.
C4_AsStated ==
    /\ \A p \in AllPaths : Unsupported(p) => extract_text(p) = UnsupportedMsg(p)
    /\ \A G \in DOMAIN disk :
          \A id \in DOMAIN disk[G].entries :
             ~Unsupported(disk[G].entries[id].file_path)

\* ------------------------------------------------------------------------
\* C5
\* ------------------------------------------------------------------------
\* extraction of the path fails: not found, unsupported format, read failure
ExtractionFails(p) ==
    extract_text(p) \in { NotFoundMsg(p), UnsupportedMsg(p), ReadErrorMsg(p) }

ScanReturned == pc = "returned" /\ call.op = "find_and_scan"

ScannedPaths == [i \in DOMAIN result.value |-> result.value[i].file_path]

\* C5, as stated: the scanner returns a Document for exactly the paths whose
\* extraction succeeds, whatever fails before them, in the order of the
\* input; when extraction fails for every path it returns the empty list.
C5_AsStated ==
    ScanReturned =>
       LET Succeeds(p) == ~ExtractionFails(p)
       IN  /\ ScannedPaths = SelectSeq(call.file_paths, Succeeds)
           /\ (\A i \in DOMAIN call.file_paths :
                  ExtractionFails(call.file_paths[i]))
                 => result.value = << >>

\* ------------------------------------------------------------------------
\* C6
\* ------------------------------------------------------------------------
StoreUnchanged ==
    UNCHANGED << CHROMA_CLIENT, CHROMA_COLLECTION, DB_EXPIRY_TIME, disk >>

EmptyListIngest(c) ==
    c.op = "ingest" /\ c.entry = "tool" /\ c.file_paths = << >>

NoDocumentsMsg == "No documents could be processed"

NoChunksMsg == "No chunks could be vectorized"

\* the paths were scanned (the call got past the tool's check of the list)
Scanned(c) == c.op = "ingest" /\ ~EmptyListIngest(c)

\* C7: an ingest call whose scan yields no Document answers NoDocuments, one
\* whose documents (the model being loaded) yield no chunk answers NoChunks;
\* either answer is an error, and the call has neither accessed nor changed
\* the store session: client, current collection, expiry and every
\* collection of the index are as before.
C7_TerminalNoEffect ==
    [][(pc = "idle" /\ pc' = "returned" /\ Scanned(call'))
          => LET documents == find_and_scan(call'.file_paths)
             IN  /\ documents = << >> => result'.message = NoDocumentsMsg
                 /\ ( /\ documents # << >>
                      /\ call'.fault.kind # "model_init"
                      /\ \A i \in DOMAIN documents :
                            documents[i].text_content = << >> )
                       => result'.message = NoChunksMsg
                 /\ result'.message \in { NoDocumentsMsg, NoChunksMsg }
                       => /\ result'.status = "error"
                          /\ access' = NoAccess
                          /\ StoreUnchanged]_vars

\* NoChunks answered while the current collection is past its expiry
C7_Witness ==
    /\ pc = "returned"
    /\ Scanned(call)
    /\ result.message = NoChunksMsg
    /\ CHROMA_COLLECTION # NoCollection
    /\ DB_EXPIRY_TIME.type = "datetime"
    /\ now >= DB_EXPIRY_TIME.v

\* ------------------------------------------------------------------------
\* C8
\* ------------------------------------------------------------------------
EntriesOf(d, G) == IF G \in DOMAIN d THEN DOMAIN d[G].entries ELSE {}

\* C8, as stated: an ingest call in which the embedding of a batch of a
\* document failed returns status error, and adds no entry to any collection.
C8_AsStated ==
    [][(pc = "idle" /\ pc' = "returned" /\ call'.op = "ingest"
        /\ call'.fault.kind = "embed")
          => /\ result'.status = "error"
             /\ \A G \in DOMAIN disk' :
                   EntriesOf(disk', G) \subseteq EntriesOf(disk, G)]_vars

\* ------------------------------------------------------------------------
\* C9
\* ------------------------------------------------------------------------
PipelineReturned == pc = "returned" /\ call.op \in { "ingest", "retrieve" }

\* C9: whatever the input and whichever stage fails, a call of the ingestion
\* or of the retrieval pipeline (directly or through its tool) returns a
\* result whose status is success or error; no exception leaves it.
C9_NeverRaises ==
    PipelineReturned => result.status \in { "success", "error" }

\* the model failed to initialise under an ingest call, which answered
C9_Witness ==
    /\ PipelineReturned
    /\ call.op = "ingest"
    /\ call.fault.kind = "model_init"
    /\ result.status = "error"
    /\ result.message = "Pipeline error"

\* ------------------------------------------------------------------------
\* C10
\* ------------------------------------------------------------------------
ChunkerReturned ==
    /\ pc = "returned"
    /\ call.op = "chunk_and_vectorize"
    /\ call.fault = NoFault
    /\ result.status = "success"

\* the chunks of the result that belong to the document
ChunksOfDoc(doc) ==
    LET Own(c) == c.filename = doc.filename
    IN  SelectSeq(result.value, Own)

RECURSIVE Concatenated(_)
Concatenated(chunks) ==
    IF chunks = << >> THEN << >>
    ELSE Head(chunks).chunk_text \o Concatenated(Tail(chunks))

EmptyCollectionMsg == "No documents found in vector database"

\* the call was served the collection access.name, which holds no entry
ServedEmpty(a, d) ==
    /\ a # NoAccess
    /\ a.name # NoCollection
    /\ DOMAIN d[a.name].entries = {}

\* C11: a retrieve that is served a collection holding no entry and counts
\* it (one that existed, or one the call created because none existed or the
\* previous one had expired) returns status error with the empty-collection
\* message, for every top_k; the query is not embedded (the model is not
\* touched, and no failure of the model, the encoding or the index query can
\* be met), the index is not queried.
C11_EmptyCollection ==
    [][(pc = "idle" /\ pc' = "returned" /\ call'.op = "retrieve"
        /\ call'.fault.kind # "count" /\ ServedEmpty(access', disk'))
          => /\ result'.status = "error"
             /\ result'.message = EmptyCollectionMsg
             /\ result'.retrieved = << >>
             /\ call'.fault = NoFault
             /\ UNCHANGED << CLIP_MODEL, CLIP_DEVICE >>]_vars

\* the first call of the process is a retrieve with the largest top_k: it
\* creates the collection, finds it empty and leaves the model unloaded
C11_Witness ==
    /\ pc = "returned"
    /\ call.op = "retrieve"
    /\ call.top_k = MaxTopK
    /\ access.fresh
    /\ ServedEmpty(access, disk)
    /\ result.message = EmptyCollectionMsg
    /\ CLIP_MODEL = None

\* ------------------------------------------------------------------------
\* C12
\* ------------------------------------------------------------------------
\* a retrieve of the pipeline with top_k >= 1 has been served a collection of
\* at least one entry, counted it, embedded the query and queried the index
Ranked ==
    /\ pc = "returned"
    /\ call.op = "retrieve"
    /\ call.top_k >= 1
    /\ access # NoAccess
    /\ access.name # NoCollection
    /\ ~ServedEmpty(access, disk)
    /\ call.fault.kind \in { "none", "duplicate_hit" }

StoredIds == DOMAIN disk[access.name].entries

\* C12: for top_k = k >= 1 and a collection of n >= 1 entries the call
\* succeeds; its results are entries of the collection in the ranking of the
\* index, no chunk_id twice; when the index returns unique ids they are the
\* min(k, n) nearest entries, exactly min(k, n) of them; when the index
\* repeats its first hit, the repetition is removed and the order of the
\* rest is kept.
C12_RankedUnique ==
    Ranked =>
       LET res == result.retrieved
           k == call.top_k
           n == Cardinality(StoredIds)
           q == call.user_query
       IN  /\ result.status = "success"
           /\ result.searched = n
           /\ \A i \in DOMAIN res : res[i] \in StoredIds
           /\ \A i, j \in DOMAIN res : i < j => res[i] # res[j]
           /\ \A i, j \in DOMAIN res : i < j => Nearer(q, res[i], res[j])
           /\ call.fault = NoFault =>
                 /\ Len(res) = Min(k, n)
                 /\ \A a \in StoredIds \ { res[i] : i \in DOMAIN res } :
                       \A i \in DOMAIN res : Nearer(q, res[i], a)
           /\ call.fault.kind = "duplicate_hit" => Len(res) = Min(k, n) - 1

\* 2 documents of 8 chunks in all are stored, top_k = 3: 3 results
C12_Witness ==
    /\ Ranked
    /\ call.fault = NoFault
    /\ Cardinality(StoredIds) = 8
    /\ call.top_k = 3
    /\ Len(result.retrieved) = 3

\* the index repeated a hit and the result holds it once
C12_WitnessRepeated ==
    /\ Ranked
    /\ call.fault.kind = "duplicate_hit"
    /\ call.top_k = 3
    /\ Len(result.retrieved) = 2

\* ------------------------------------------------------------------------
\* C13
\* ------------------------------------------------------------------------
BlankRetrieve(c) ==
    c.op = "retrieve" /\ c.entry = "tool" /\ Strip(c.user_query) = ""

IngestSucceeded ==
    pc = "returned" /\ call.op = "ingest" /\ result.status = "success"

\* the ids of the chunks of the documents scanned from the paths of the
\* call: filename and index, ceil(s/4) of them for a text of s sentences
BatchChunkIds ==
    LET documents == find_and_scan(call.file_paths)
    IN  UNION { { << documents[d].filename, i >> :
                    i \in 0..(((Len(documents[d].text_content) + 3) \div 4)
                                - 1) } :
                d \in DOMAIN documents }

\* what a successful ingest reports, but for the count of the chunks
ReportsActiveCollection ==
    /\ access # NoAccess
    /\ result.collection_name = access.name
    /\ result.collection_name = CHROMA_COLLECTION
    /\ DB_EXPIRY_TIME.type = "datetime"
    /\ now < DB_EXPIRY_TIME.v
    /\ result.chunks_count > 0

\* C14, as stated: after a successful ingest reporting chunk_count n and
\* collection_name c, c is the active collection the write went to and is
\* not expired, n is the number of the chunks of the batch, and c holds an
\* entry for each of them.
C14_AsStated ==
    IngestSucceeded =>
       /\ ReportsActiveCollection
       /\ result.chunks_count = Cardinality(BatchChunkIds)
       /\ BatchChunkIds \subseteq DOMAIN disk[result.collection_name].entries

\* the part of C14 that holds of the code: when no embedding failed
C14_EmbeddingWorking ==
    (IngestSucceeded /\ call.fault.kind # "embed") => C14_AsStated

\* ------------------------------------------------------------------------
\* C15
\* ------------------------------------------------------------------------
CallStep == pc = "idle" /\ pc' = "returned"

\* the call of this step reaches the embedder: an ingest that scanned a
\* document, a retrieve that counted a collection holding entries, a direct
\* call of the chunker
NeedsModel ==
    \/ /\ Scanned(call')
       /\ find_and_scan(call'.file_paths) # << >>
    \/ /\ call'.op = "retrieve"
       /\ call'.fault.kind # "count"
       /\ access' # NoAccess
       /\ access'.name # NoCollection
       /\ ~ServedEmpty(access', disk')
    \/ call'.op = "chunk_and_vectorize"

\* C15: the model and its device are set by the first call that needs the
\* model and loads it; from then on no step changes them, and no call loads
\* the model again (none can meet a failure of the load); a call that does
\* not need the model does not load it.
C15_InitOnce ==
    [][/\ CLIP_MODEL # None =>
             /\ UNCHANGED << CLIP_MODEL, CLIP_DEVICE >>
             /\ CallStep => call'.fault.kind # "model_init"
       /\ (CLIP_MODEL = None /\ CLIP_MODEL' # None) =>
             CallStep /\ NeedsModel
       /\ (CallStep /\ NeedsModel /\ call'.fault = NoFault) =>
             CLIP_MODEL' # None /\ CLIP_DEVICE' # None]_vars

\* a retrieve embeds its query with the model an earlier ingest loaded
C15_Witness ==
    /\ pc = "returned"
    /\ call.op = "retrieve"
    /\ result.status = "success"
    /\ Len(result.retrieved) >= 1
    /\ CLIP_MODEL # None
    /\ CLIP_DEVICE # None

\* ------------------------------------------------------------------------
\* C16
\* ------------------------------------------------------------------------
\* caller t runs the statement at line `from` and goes on to `to`
CallerStep(t, from, to) == callers[t].at = from /\ callers'[t].at = to

\* the caller went past the validity test: it saw no collection, or an
\* expired one
SawNoValid(t) == callers[t].at \in { "l58", "l63", "l66" }

\* the chunks of caller t are entries of collection G
HoldsChunksOf(G, t) ==
    ChunkIds(CallerChunks(t)) \subseteq DOMAIN disk[G].entries

\* C16: nothing keeps a caller that saw no valid collection from creating
\* one while another caller does the same: its assignment replaces whatever
\* the session's active collection is (the last assignment wins); a
\* collection is created empty and receives only the chunks of the callers
\* that write to it (no merge); so the chunks of a write reported successful
\* are in the collection that caller was given, which need not be the
\* active one.
C16_LastWriteWins ==
    [][\A t \in Callers :
          /\ CallerStep(t, "l66", "l77") =>
                /\ CHROMA_COLLECTION' =
                      CollectionName(callers[t].current_time)
                /\ \A G \in DOMAIN disk' \ DOMAIN disk :
                      DOMAIN disk'[G].entries = {}
                /\ \A G \in DOMAIN disk : disk'[G] = disk[G]
          /\ CallerStep(t, "add", "done") =>
                /\ DOMAIN disk' = DOMAIN disk
                /\ \A G \in DOMAIN disk :
                      G # callers[t].collection => disk'[G] = disk[G]
                /\ callers'[t].result.status = "success" =>
                      /\ callers'[t].result.collection_name =
                            callers[t].collection
                      /\ DOMAIN disk'[callers[t].collection].entries =
                            DOMAIN disk[callers[t].collection].entries
                               \cup ChunkIds(CallerChunks(t))]_vars

\* both callers have passed the validity test before either created its
\* collection: both saw that there was none
C16_WitnessBothObserve ==
    \A t \in Callers : SawNoValid(t)

\* both callers returned success, each from a collection it created; the
\* active collection is the one B assigned last and has not expired, and it
\* does not hold the chunks A reported as stored
C16_Witness ==
    /\ \A t \in Callers :
          /\ callers[t].at = "done"
          /\ callers[t].result.status = "success"
    /\ callers["A"].result.collection_name
          # callers["B"].result.collection_name
    /\ CHROMA_COLLECTION = callers["B"].result.collection_name
    /\ DB_EXPIRY_TIME.type = "datetime"
    /\ now < DB_EXPIRY_TIME.v
    /\ HoldsChunksOf(callers["A"].result.collection_name, "A")
    /\ ~HoldsChunksOf(CHROMA_COLLECTION, "A")

\* ------------------------------------------------------------------------
\* C17
\* ------------------------------------------------------------------------
\* the path exists, has a supported extension and is read without error
ReadSucceeds(p) ==
    PathExists(p) /\ FileExt(p) \in SupportedExts /\ ~Unreadable(p)

\* C17, as stated: the scanner returns a Document holding the file's text
\* for every path of its input that exists, has a supported extension and is
\* read without error, whatever the text is.
C17_AsStated ==
    ScanReturned =>
       \A i \in DOMAIN call.file_paths :
          ReadSucceeds(call.file_paths[i]) =>
             \E j \in DOMAIN result.value :
                /\ result.value[j].file_path = call.file_paths[i]
                /\ result.value[j].text_content =
                      FileContent(call.file_paths[i])

\* ------------------------------------------------------------------------
\* C18
\* ------------------------------------------------------------------------
\* the call of this step met a failure of the index provider while it
\* created the collection
CreationFailed == call'.fault.kind \in { "client", "create" }

\* C18, as stated: a call in which the creation of the collection fails
\* returns an error (to the tool and pipeline callers; the exception to a
\* direct caller of init_chroma_db), and whatever has failed before, an
\* access made while the index provider works is given a collection.
C18_AsStated ==
    [][AccessStep =>
          /\ CreationFailed =>
                /\ access' = NoAccess
                /\ result'.status \in { "error", "raised" }
          /\ call'.fault = NoFault =>
                /\ access' # NoAccess
                /\ access'.name # NoCollection
                /\ access'.name = CHROMA_COLLECTION']_vars

\* the part of C18 that holds of the code: a creation that fails on a
\* rotation, the session having had a collection before, is retried by the
\* next access
C18_AfterRotation ==
    [][(AccessStep /\ DB_EXPIRY_TIME.type = "datetime")
          => /\ CreationFailed =>
                   /\ access' = NoAccess
                   /\ result'.status \in { "error", "raised" }
             /\ call'.fault = NoFault =>
                   /\ access' # NoAccess
                   /\ access'.name = CHROMA_COLLECTION']_vars

\* ------------------------------------------------------------------------
\* C19
\* ------------------------------------------------------------------------
\* a direct call of push_to_db returns in this step; it was given no chunk
EmptyWrite ==
    /\ CallStep
    /\ call'.op = "push_to_db"
    /\ GivenChunks(call'.file_paths) = << >>

\* C19, as stated: a write given zero chunks returns the error that there is
\* nothing to store, and leaves the session as it was: no first collection
\* is created, an expired one is not rotated, the expiry and the entries of
\* every collection are unchanged.
C19_AsStated ==
    [][(EmptyWrite /\ call'.fault = NoFault)
          => /\ result'.status = "error"
             /\ result'.message = "No chunks to store"
             /\ StoreUnchanged]_vars

\* the part of C19 that holds of the code: the write adds no entry, and
\* returns an error
C19_NoEntryAdded ==
    [][EmptyWrite
          => /\ result'.status = "error"
             /\ \A G \in DOMAIN disk' :
                   EntriesOf(disk', G) \subseteq EntriesOf(disk, G)]_vars

====
